---------------------------- MODULE Spec2Model ----------------------------
(***************************************************************************)
(* A model of the static analyzer of backend/analyzer:                     *)
(*   - analyzer.py        analyze_python_code (parse, then static checks)  *)
(*   - static_checks.py   UndefinedNameVisitor, RuntimePatternVisitor,     *)
(*                        ComplexityVisitor, run_static_checks             *)
(*                                                                         *)
(* A syntax tree is a nested record; the field `cls` is the node's class   *)
(* and the other fields are those of Python's ast module.  A visitor is a  *)
(* state machine over an agenda (the pending part of the recursive walk:   *)
(* the nodes still to visit and the handlers' steps that follow a visit),  *)
(* one action per visit_X handler.                                         *)
(***************************************************************************)
EXTENDS Integers, Sequences, FiniteSets

(***************************************************************************)
(* Syntax trees (what ast.parse produces).                                 *)
(***************************************************************************)
Absent == [cls |-> "Absent"]            \* a field that is None

Name(id, ctx, l) == [cls |-> "Name", id |-> id, ctx |-> ctx, lineno |-> l]

\* A literal.  ty is the Python type of the value, num its numeric value
\* (False is 0, True is 1; None and strings carry no number and num is -1).
Constant(ty, num, l) == [cls |-> "Constant", ty |-> ty, num |-> num, lineno |-> l]

BinOp(left, op, right, l) ==
    [cls |-> "BinOp", left |-> left, op |-> op, right |-> right, lineno |-> l]

Compare(left, ops, comparators, l) ==
    [cls |-> "Compare", left |-> left, ops |-> ops, comparators |-> comparators,
     lineno |-> l]

Call(func, args, l) == [cls |-> "Call", func |-> func, args |-> args, lineno |-> l]

Tuple(elts, ctx, l) == [cls |-> "Tuple", elts |-> elts, ctx |-> ctx, lineno |-> l]

List(elts, ctx, l) == [cls |-> "List", elts |-> elts, ctx |-> ctx, lineno |-> l]

Starred(value, ctx, l) == [cls |-> "Starred", value |-> value, ctx |-> ctx, lineno |-> l]

Subscript(value, slice, ctx, l) ==
    [cls |-> "Subscript", value |-> value, slice |-> slice, ctx |-> ctx, lineno |-> l]

Expr(value, l) == [cls |-> "Expr", value |-> value, lineno |-> l]

Pass(l) == [cls |-> "Pass", lineno |-> l]

Assign(targets, value, l) ==
    [cls |-> "Assign", targets |-> targets, value |-> value, lineno |-> l]

AugAssign(target, op, value, l) ==
    [cls |-> "AugAssign", target |-> target, op |-> op, value |-> value, lineno |-> l]

AnnAssign(target, annotation, value, l) ==
    [cls |-> "AnnAssign", target |-> target, annotation |-> annotation,
     value |-> value, lineno |-> l]

\* alias: name is the dotted name as the sequence of its components ("*" is
\* <<"*">>), asname is "" when the import has no `as`.
Alias(name, asname) == [name |-> name, asname |-> asname]

Import(names, l) == [cls |-> "Import", names |-> names, lineno |-> l]

ImportFrom(names, l) == [cls |-> "ImportFrom", names |-> names, lineno |-> l]

\* arg: one parameter, with its annotation (Absent when it has none).
Arg(arg, annotation) == [arg |-> arg, annotation |-> annotation]

\* arguments: params is posonlyargs + args + kwonlyargs in that order (the
\* visitor concatenates them); vararg and kwarg are "" when absent.
Arguments(params, vararg, kwarg, defaults) ==
    [params |-> params, vararg |-> vararg, kwarg |-> kwarg, defaults |-> defaults]

\* cls is "FunctionDef" or "AsyncFunctionDef".
FunctionDef(cls, name, args, body, decorator_list, returns, l) ==
    [cls |-> cls, name |-> name, args |-> args, body |-> body,
     decorator_list |-> decorator_list, returns |-> returns, lineno |-> l]

ClassDef(name, bases, body, decorator_list, l) ==
    [cls |-> "ClassDef", name |-> name, bases |-> bases, body |-> body,
     decorator_list |-> decorator_list, lineno |-> l]

\* cls is "For" or "AsyncFor".
For(cls, target, iter, body, orelse, l) ==
    [cls |-> cls, target |-> target, iter |-> iter, body |-> body,
     orelse |-> orelse, lineno |-> l]

While(test, body, orelse, l) ==
    [cls |-> "While", test |-> test, body |-> body, orelse |-> orelse, lineno |-> l]

\* withitem: optional_vars is Absent when the item has no `as`.
WithItem(context_expr, optional_vars) ==
    [context_expr |-> context_expr, optional_vars |-> optional_vars]

\* cls is "With" or "AsyncWith".
With(cls, items, body, l) == [cls |-> cls, items |-> items, body |-> body, lineno |-> l]

\* type is Absent for a bare `except:`, name is "" without `as`.
ExceptHandler(type, name, body, l) ==
    [cls |-> "ExceptHandler", type |-> type, name |-> name, body |-> body, lineno |-> l]

Try(body, handlers, orelse, finalbody, l) ==
    [cls |-> "Try", body |-> body, handlers |-> handlers, orelse |-> orelse,
     finalbody |-> finalbody, lineno |-> l]

Module(body) == [cls |-> "Module", body |-> body]

(***************************************************************************)
(* Sequence helpers.                                                       *)
(***************************************************************************)
Range(s) == {s[i] : i \in 1..Len(s)}

RECURSIVE Flatten(_)
Flatten(ss) == IF ss = <<>> THEN <<>> ELSE Head(ss) \o Flatten(Tail(ss))

\* The sequence s without its Absent entries.
Present(s) == SelectSeq(s, LAMBDA n : n.cls # "Absent")


(***************************************************************************)
(* ast.NodeVisitor.generic_visit visits the child nodes of a node in the   *)
(* order of the node class's _fields.  Children(n) is that sequence.  The  *)
(* helper nodes arguments, arg, withitem and alias are passed through: an  *)
(* arguments node yields the annotations of its parameters and then its    *)
(* defaults, a withitem its context_expr and then its optional_vars, an    *)
(* alias nothing.  Expression contexts and operators (Load, Store, Div,    *)
(* Eq, ...) are childless nodes no visitor has a handler for, and are left *)
(* out.                                                                    *)
(***************************************************************************)
\* The child nodes `nodes`, each tagged with the field it comes from.
In(field, nodes) == [i \in 1..Len(nodes) |-> [field |-> field, node |-> nodes[i]]]

ArgumentsFields(a) ==
    In("annotation", Present([i \in 1..Len(a.params) |-> a.params[i].annotation]))
        \o In("defaults", a.defaults)

WithItemFields(item) ==
    In("context_expr", <<item.context_expr>>)
        \o In("optional_vars", Present(<<item.optional_vars>>))

\* ast.iter_fields restricted to the child nodes: <<field, node>> in order.
Fields(n) ==
    CASE n.cls = "Module" -> In("body", n.body)
      [] n.cls \in {"FunctionDef", "AsyncFunctionDef"} ->
            ArgumentsFields(n.args) \o In("body", n.body)
                \o In("decorator_list", n.decorator_list)
                \o In("returns", Present(<<n.returns>>))
      [] n.cls = "ClassDef" ->
            In("bases", n.bases) \o In("body", n.body)
                \o In("decorator_list", n.decorator_list)
      [] n.cls \in {"For", "AsyncFor"} ->
            In("target", <<n.target>>) \o In("iter", <<n.iter>>)
                \o In("body", n.body) \o In("orelse", n.orelse)
      [] n.cls = "While" ->
            In("test", <<n.test>>) \o In("body", n.body) \o In("orelse", n.orelse)
      [] n.cls \in {"With", "AsyncWith"} ->
            Flatten([i \in 1..Len(n.items) |-> WithItemFields(n.items[i])])
                \o In("body", n.body)
      [] n.cls = "Try" ->
            In("body", n.body) \o In("handlers", n.handlers)
                \o In("orelse", n.orelse) \o In("finalbody", n.finalbody)
      [] n.cls = "ExceptHandler" -> In("type", Present(<<n.type>>)) \o In("body", n.body)
      [] n.cls = "Assign" -> In("targets", n.targets) \o In("value", <<n.value>>)
      [] n.cls = "AugAssign" -> In("target", <<n.target>>) \o In("value", <<n.value>>)
      [] n.cls = "AnnAssign" ->
            In("target", <<n.target>>) \o In("annotation", <<n.annotation>>)
                \o In("value", Present(<<n.value>>))
      [] n.cls = "Expr" -> In("value", <<n.value>>)
      [] n.cls = "BinOp" -> In("left", <<n.left>>) \o In("right", <<n.right>>)
      [] n.cls = "Compare" -> In("left", <<n.left>>) \o In("comparators", n.comparators)
      [] n.cls = "Call" -> In("func", <<n.func>>) \o In("args", n.args)
      [] n.cls \in {"Tuple", "List"} -> In("elts", n.elts)
      [] n.cls = "Starred" -> In("value", <<n.value>>)
      [] n.cls = "Subscript" -> In("value", <<n.value>>) \o In("slice", <<n.slice>>)
      [] OTHER -> <<>>          \* Name, Constant, Pass, Import, ImportFrom

\* ast.iter_child_nodes(n).
Children(n) == LET fs == Fields(n) IN [i \in 1..Len(fs) |-> fs[i].node]

\* ast.walk(node): the node and all its descendants, as a sequence.
RECURSIVE Walk(_)
Walk(n) ==
    LET cs == Children(n)
    IN  <<n>> \o Flatten([i \in 1..Len(cs) |-> Walk(cs[i])])

\* static_checks._add_target_names: the names a target adds to a scope.
\* (An ast.ExceptHandler target adds its name; no caller passes one.)
RECURSIVE TargetNames(_)
TargetNames(target) ==
    CASE target.cls = "Name" -> {target.id}
      [] target.cls \in {"Tuple", "List"} ->
            UNION {TargetNames(target.elts[i]) : i \in 1..Len(target.elts)}
      [] target.cls = "ExceptHandler" ->
            IF target.name # "" THEN {target.name} ELSE {}
      [] target.cls = "Starred" -> TargetNames(target.value)
      [] OTHER -> {}

(***************************************************************************)
(* The inputs.  A request carries a source text; the model keeps of it     *)
(* what ast.parse makes of it: blank text, a SyntaxError (with its lineno  *)
(* and msg), or a tree.                                                    *)
(*                                                                         *)
(* The trees are the modules  [prelude] subject [epilogue]: an optional    *)
(* binding statement on line 1, one statement of any modelled kind whose   *)
(* decorators are on line 2, whose header is on line 3 and whose body      *)
(* starts on line 4, and an optional reading statement on line 20.  Names: *)
(* x and q are variables, f is the defined function or class, len is a     *)
(* builtin.                                                                *)
(***************************************************************************)
MaxNest == 3        \* loops nested in one another: 1..MaxNest

Ld(id, l) == Name(id, "Load", l)

St(id, l) == Name(id, "Store", l)

IntC(v, l) == Constant("int", v, l)

NoArgs == Arguments(<<>>, "", "", <<>>)

\* The statements a body is made of.
BodyStmts(l) ==
    { Pass(l),
      Expr(Ld("x", l), l),
      Expr(Ld("q", l), l),
      Expr(Call(Ld("f", l), <<Ld("x", l)>>, l), l),
      Assign(<<St("x", l)>>, IntC(1, l), l),
      Expr(BinOp(Ld("x", l), "Div", IntC(0, l), l), l) }

Bodies(l) ==
    { <<s>> : s \in BodyStmts(l) }
      \cup { <<Assign(<<St("x", l)>>, IntC(1, l), l), Expr(Ld("x", l), l + 1)>>,
             <<Expr(Ld("q", l), l), Expr(Ld("q", l), l)>>,
             <<FunctionDef("FunctionDef", "f", NoArgs, <<Pass(l)>>, <<>>, Absent, l),
               Expr(Call(Ld("f", l + 1), <<>>, l + 1), l + 1)>> }

\* Simple statements: reads, bindings, and targets that bind nothing.
SimpleSubjects(l) ==
    BodyStmts(l) \cup
    { Expr(Ld("len", l), l),
      Expr(BinOp(Ld("q", l), "Add", Ld("q", l), l), l),
      Expr(Call(Ld("len", l), <<Ld("q", l)>>, l), l),
      Assign(<<Tuple(<<St("x", l), Starred(St("q", l), "Store", l)>>, "Store", l)>>,
             Ld("x", l), l),
      Assign(<<List(<<St("x", l)>>, "Store", l), St("q", l)>>, Ld("q", l), l),
      Assign(<<Subscript(Ld("x", l), Ld("q", l), "Store", l)>>, IntC(1, l), l),
      AugAssign(St("x", l), "Add", Ld("q", l), l),
      AnnAssign(St("x", l), Ld("q", l), Absent, l),
      AnnAssign(St("x", l), Ld("len", l), Ld("x", l), l),
      Import(<<Alias(<<"x", "q">>, "")>>, l),
      Import(<<Alias(<<"q">>, "x")>>, l),
      ImportFrom(<<Alias(<<"*">>, "")>>, l),
      ImportFrom(<<Alias(<<"q">>, ""), Alias(<<"f">>, "x")>>, l) }

\* The right operands of a binary operator: 0, 1, 0.0, 0j, False, True, q.
RightOperands(l) ==
    { IntC(0, l), IntC(1, l), Constant("float", 0, l), Constant("complex", 0, l),
      Constant("bool", 0, l), Constant("bool", 1, l), Ld("q", l) }

BinOps == {"Div", "FloorDiv", "Mod", "Add"}

NoneConst(l) == Constant("NoneType", -1, l)

PatternSubjects(l) ==
    { Expr(BinOp(Ld("x", l), op, r, l), l) : op \in BinOps, r \in RightOperands(l) }
    \cup
    { Expr(BinOp(BinOp(Ld("x", l), "Mod", IntC(0, l), l), "Add",
                 BinOp(IntC(0, l), "Div", Constant("float", 0, l + 1), l + 1), l), l),
      Expr(BinOp(IntC(0, l), "Div", BinOp(IntC(1, l), "Add", IntC(0, l), l), l), l) }
    \cup
    { Expr(Compare(Ld("x", l), <<op>>, <<r>>, l), l) :
        op \in {"Eq", "NotEq", "Is", "Lt"}, r \in {NoneConst(l), IntC(0, l), Ld("q", l)} }
    \cup
    { Expr(Compare(NoneConst(l), <<op>>, <<Ld("x", l)>>, l), l) : op \in {"Eq", "NotEq"} }
    \cup
    { Expr(Compare(Ld("x", l), <<"Eq", "Eq">>, <<NoneConst(l), Ld("q", l)>>, l), l),
      Expr(Compare(Ld("x", l), <<"Lt", "NotEq">>, <<Ld("q", l), NoneConst(l)>>, l), l),
      Expr(BinOp(Compare(Ld("x", l), <<"Eq">>, <<NoneConst(l)>>, l), "Add",
                 Compare(Ld("q", l), <<"NotEq">>, <<NoneConst(l + 1)>>, l + 1), l), l) }

\* Function definitions: the header varies with a one-statement body, and
\* the body varies under two headers.
FunctionHeads(l) ==
    { [cls |-> "FunctionDef", args |-> NoArgs, decos |-> <<>>, returns |-> Absent],
      [cls |-> "FunctionDef", args |-> Arguments(<<Arg("x", Absent)>>, "", "", <<>>),
       decos |-> <<>>, returns |-> Absent],
      [cls |-> "AsyncFunctionDef", args |-> Arguments(<<Arg("x", Absent)>>, "", "", <<>>),
       decos |-> <<>>, returns |-> Absent],
      [cls |-> "FunctionDef",
       args |-> Arguments(<<Arg("x", Absent)>>, "", "", <<Ld("q", l)>>),
       decos |-> <<>>, returns |-> Absent],
      [cls |-> "FunctionDef",
       args |-> Arguments(<<Arg("x", Ld("q", l))>>, "", "", <<>>),
       decos |-> <<>>, returns |-> Absent],
      [cls |-> "FunctionDef", args |-> Arguments(<<>>, "x", "q", <<>>),
       decos |-> <<>>, returns |-> Absent],
      [cls |-> "FunctionDef", args |-> Arguments(<<Arg("x", Absent)>>, "", "", <<>>),
       decos |-> <<Ld("x", l - 1)>>, returns |-> Absent],
      [cls |-> "FunctionDef", args |-> NoArgs,
       decos |-> <<Ld("q", l - 1)>>, returns |-> Absent],
      [cls |-> "FunctionDef", args |-> NoArgs,
       decos |-> <<BinOp(Ld("q", l - 1), "Div", IntC(0, l - 1), l - 1)>>,
       returns |-> Absent],
      [cls |-> "FunctionDef", args |-> NoArgs, decos |-> <<>>, returns |-> Ld("q", l)] }

FunctionSubjects(l) ==
    { FunctionDef(h.cls, "f", h.args, b, h.decos, h.returns, l) :
        h \in FunctionHeads(l), b \in Bodies(l + 1) }

ClassSubjects(l) ==
    { ClassDef("f", bases, b, decos, l) :
        bases \in {<<>>, <<Ld("x", l)>>, <<Ld("q", l)>>},
        decos \in {<<>>, <<Ld("q", l - 1)>>},
        b \in Bodies(l + 1) }

\* A loop of class cls over the iterated expression iter.
Loop(cls, iter, body, l) ==
    IF cls = "While" THEN While(iter, body, <<>>, l)
    ELSE For(cls, St("x", l), iter, body, <<>>, l)

\* The iterated expressions: q, 5, True, "s", [1], len(q).
Iterables(l) ==
    { Ld("q", l), IntC(5, l), Constant("bool", 1, l), Constant("str", -1, l),
      List(<<IntC(1, l)>>, "Load", l), Call(Ld("len", l), <<Ld("q", l)>>, l) }

LoopSubjects(l) ==
    { Loop(cls, Ld("q", l), b, l) :
        cls \in {"For", "AsyncFor", "While"}, b \in Bodies(l + 1) }
    \cup
    { Loop(cls, it, <<Pass(l + 1)>>, l) :
        cls \in {"For", "AsyncFor"}, it \in Iterables(l) }
    \cup
    { For("For", Tuple(<<St("x", l), St("q", l)>>, "Store", l), Ld("x", l),
          <<Expr(Ld("q", l + 1), l + 1)>>, <<Expr(Ld("x", l + 2), l + 2)>>, l),
      For("For", Subscript(Ld("x", l), Ld("q", l), "Store", l), Ld("q", l),
          <<Pass(l + 1)>>, <<>>, l),
      While(Ld("q", l), <<Pass(l + 1)>>, <<Expr(Ld("x", l + 2), l + 2)>>, l) }

WithSubjects(l) ==
    { With(cls, items, b, l) :
        cls \in {"With", "AsyncWith"},
        items \in { <<WithItem(Ld("q", l), St("x", l))>>,
                    <<WithItem(Ld("q", l), Absent)>> },
        b \in Bodies(l + 1) }
    \cup
    { With("With", <<WithItem(Ld("q", l), St("x", l)), WithItem(Ld("x", l), St("q", l))>>,
           <<Expr(Ld("q", l + 1), l + 1)>>, l) }

TrySubjects(l) ==
    { Try(<<Pass(l + 1)>>, <<ExceptHandler(h.type, h.name, b, l + 2)>>, <<>>, <<>>, l) :
        h \in { [type |-> Ld("q", l + 2), name |-> "x"],
                [type |-> Ld("len", l + 2), name |-> ""],
                [type |-> Absent, name |-> ""] },
        b \in Bodies(l + 3) }
    \cup
    { Try(<<Expr(Ld("q", l + 1), l + 1)>>,
          <<ExceptHandler(Ld("q", l + 2), "x", <<Pass(l + 3)>>, l + 2)>>,
          <<Expr(Ld("x", l + 4), l + 4)>>, <<Expr(Ld("x", l + 5), l + 5)>>, l) }

\* d loops nested in one another, the outermost on line l, around `body`.
RECURSIVE Nest(_, _, _, _)
Nest(d, cls, l, body) ==
    IF d = 0 THEN body ELSE <<Loop(cls, Ld("q", l), Nest(d - 1, cls, l + 1, body), l)>>

NestBodies(l) ==
    { <<Pass(l)>>, <<Expr(Call(Ld("f", l), <<Ld("x", l)>>, l), l)>>,
      <<Expr(BinOp(Ld("x", l), "Mod", IntC(0, l), l), l)>> }

\* Loop nests at module level and inside a function, a loop after a nest,
\* and a function defined inside a function.
NestedSubjects(l) ==
    UNION { { Nest(d, cls, l, b)[1] :
                cls \in {"For", "While", "AsyncFor"}, b \in NestBodies(l + d) } :
            d \in 2..MaxNest }
    \cup
    { Loop("For", Ld("q", l), Nest(d, "While", l + 1, <<Pass(l + 1 + d)>>)
                                \o <<Loop("For", IntC(5, l + 2 + d), <<Pass(l + 3 + d)>>,
                                          l + 2 + d)>>, l) :
        d \in 1..(MaxNest - 1) }
    \cup
    UNION { { FunctionDef(cls, "f", Arguments(<<Arg("x", Absent)>>, "", "", <<>>),
                          Nest(d, "For", l + 1, b), <<>>, Absent, l) :
                cls \in {"FunctionDef", "AsyncFunctionDef"},
                b \in NestBodies(l + 1 + d) } :
            d \in 1..MaxNest }
    \cup
    { FunctionDef("FunctionDef", "g", NoArgs,
                  <<FunctionDef("FunctionDef", "f", NoArgs, b, <<>>, Absent, l + 1)>>,
                  <<>>, Absent, l) :
        b \in Bodies(l + 2) }
    \cup
    { ClassDef("g", <<>>,
               <<FunctionDef("FunctionDef", "f", Arguments(<<Arg("x", Absent)>>, "", "", <<>>),
                             b, <<>>, Absent, l + 1)>>, <<>>, l) :
        b \in NestBodies(l + 2) }

Subjects ==
    SimpleSubjects(3) \cup PatternSubjects(3) \cup FunctionSubjects(3)
      \cup ClassSubjects(3) \cup LoopSubjects(3) \cup WithSubjects(3)
      \cup TrySubjects(3) \cup NestedSubjects(3)

Preludes ==
    { <<>>,
      <<Assign(<<St("x", 1)>>, IntC(1, 1), 1)>>,
      <<Loop("For", Ld("q", 1), <<Pass(1)>>, 1)>> }

Epilogues ==
    { <<>>,
      <<Expr(Ld("x", 20), 20)>>,
      <<Expr(Call(Ld("f", 20), <<>>, 20), 20)>> }

Trees == { Module(pre \o <<s>> \o epi) : pre \in Preludes, s \in Subjects, epi \in Epilogues }
            \cup { Module(<<>>) }

\* SyntaxError: lineno -1 stands for None.
SyntaxErrors ==
    { [lineno |-> n, msg |-> m] :
        n \in {-1, 1, 3}, m \in {"invalid syntax", "unexpected EOF while parsing"} }

Sources ==
    { [parse |-> "blank"] }
      \cup { [parse |-> "SyntaxError", exc |-> e] : e \in SyntaxErrors }
      \cup { [parse |-> "tree", tree |-> t] : t \in Trees }

Requests ==
    { [source |-> src, include_complexity |-> ic] : src \in Sources, ic \in BOOLEAN }

(***************************************************************************)
(* UndefinedNameVisitor: the scope stack and the report of a read.         *)
(***************************************************************************)
\* self.builtins: dir(builtins), of which the inputs use len.
Builtins == {"len", "print", "range"}

\* name.startswith("_")
UnderscoreNames == {"_", "_x"}

PushScope(sc) == Append(sc, {})

\* _pop_scope without its test of the length.
PopScopeUnguarded(sc) == SubSeq(sc, 1, Len(sc) - 1)

PopScope(sc) == IF Len(sc) > 1 THEN SubSeq(sc, 1, Len(sc) - 1) ELSE sc

IsDefined(sc, name) == \E i \in 1..Len(sc) : name \in sc[i]

\* _define adding to the module frame, not to the top frame.
DefineOutermost(sc, name) == IF name # "" THEN [sc EXCEPT ![1] = @ \cup {name}] ELSE sc

Define(sc, name) ==
    IF name # "" /\ name \notin UnderscoreNames
    THEN [sc EXCEPT ![Len(sc)] = @ \cup {name}]
    ELSE IF name # ""
         THEN [sc EXCEPT ![Len(sc)] = @ \cup {name}]
         ELSE sc

RECURSIVE DefineAll(_, _)
DefineAll(sc, names) ==
    IF names = <<>> THEN sc ELSE DefineAll(Define(sc, Head(names)), Tail(names))

\* _add_target_names(target, self.scopes[-1])
AddTargetNames(target, sc) == [sc EXCEPT ![Len(sc)] = @ \cup TargetNames(target)]

RECURSIVE AddAllTargetNames(_, _)
AddAllTargetNames(targets, sc) ==
    IF targets = <<>> THEN sc
    ELSE AddAllTargetNames(Tail(targets), AddTargetNames(Head(targets), sc))

\* Which return of _report_undefined a read takes.
\* _report_undefined without its test of _seen.
ReportOutcomeNoSeen(node, sc, sn) ==
    IF node.id \in Builtins \/ node.id \in {"None", "True", "False"} THEN "builtin"
    ELSE IF IsDefined(sc, node.id) THEN "defined"
    ELSE "flagged"

ReportOutcome(node, sc, sn) ==
    IF node.id \in Builtins \/ node.id \in {"None", "True", "False"} THEN "builtin"
    ELSE IF IsDefined(sc, node.id) THEN "defined"
    ELSE IF <<node.id, node.lineno>> \in sn THEN "seen"
    ELSE "flagged"

(***************************************************************************)
(* RuntimeIssue.  why is the message as the sequence of its parts (the     *)
(* f-string of an undefined name has the name as its second part).  The    *)
(* snippet, a piece of the source text, is not modelled.                   *)
(***************************************************************************)
RuntimeIssue(type, line, why, severity) ==
    [type |-> type, line |-> line, why |-> why, severity |-> severity]

UndefinedIssue(node) ==
    RuntimeIssue("Potential issue", node.lineno,
                 <<"Variable '", node.id, "' might not be defined before it is used.">>,
                 "warning")

ZeroDivisionIssue(node) ==
    RuntimeIssue("ZeroDivisionError", node.lineno,
                 <<"This expression can divide by zero.">>, "warning")

NotIterableIssue(node) ==
    RuntimeIssue("TypeError", node.iter.lineno,
                 <<"You are trying to iterate over an int, which is not iterable.">>,
                 "warning")

NoneCheckIssue(node) ==
    RuntimeIssue("BestPractice", node.lineno,
                 <<"Use is None / is not None for None checks.">>, "info")

\* exc.lineno or 0
LinenoOrZero(exc) == IF exc.lineno = -1 \/ exc.lineno = 0 THEN 0 ELSE exc.lineno

\* The SyntaxError issue without the line of the exception.
SyntaxErrorIssueNoLine(exc) == RuntimeIssue("SyntaxError", 0, <<exc.msg>>, "error")

SyntaxErrorIssue(exc) ==
    RuntimeIssue("SyntaxError", LinenoOrZero(exc), <<exc.msg>>, "error")

(***************************************************************************)
(* RuntimePatternVisitor and ComplexityVisitor: the tests of the handlers. *)
(***************************************************************************)
\* isinstance(node, ast.Constant) and isinstance(node.value, (int, float))
\* and node.value == 0      (bool is a subclass of int)
IsConstantZero(node) ==
    /\ node.cls = "Constant"
    /\ node.ty \in {"int", "bool", "float"}
    /\ node.num = 0

\* isinstance(node.iter, ast.Constant) and isinstance(node.iter.value, int)
IsIntConstant(node) == node.cls = "Constant" /\ node.ty \in {"int", "bool"}

\* isinstance(comp_rhs, ast.Constant) and comp_rhs.value is None
IsNoneConstant(node) == node.cls = "Constant" /\ node.ty = "NoneType"

DivisionOps == {"Div", "FloorDiv", "Mod"}

EqualityOps == {"Eq", "NotEq"}

\* ComplexityVisitor._check_recursion(node), with self.function_name = fn
\* _check_recursion looking at the statements of the body only.
CheckRecursionShallow(node, fn) ==
    \E i \in 1..Len(node.body) :
        /\ node.body[i].cls = "Expr"
        /\ node.body[i].value.cls = "Call"
        /\ node.body[i].value.func.cls = "Name"
        /\ node.body[i].value.func.id = fn

CheckRecursion(node, fn) ==
    LET w == Walk(node)
    IN  \E i \in 1..Len(w) :
            /\ w[i].cls = "Call"
            /\ w[i].func.cls = "Name"
            /\ w[i].func.id = fn

DeriveTimeComplexity(recursion, depth) ==
    IF recursion THEN "Depends on recursion depth; often O(2^n) for naive recursion"
    ELSE IF depth = 0 THEN "Roughly O(n)"
    ELSE IF depth = 1 THEN "Roughly O(n)"
    ELSE IF depth = 2 THEN "Approximately O(n^2)"
    ELSE "Approximately O(n^k), k > 2"

DeriveSpaceComplexity(recursion) ==
    IF recursion THEN "O(recursion depth)" ELSE "O(1) to O(n) typical for this file"

(***************************************************************************)
(* The state.                                                              *)
(***************************************************************************)
VARIABLES
    request,            \* the arguments of analyze_python_code
    pc,                 \* where the call is
    syntax_ok, tree,    \* analyze_python_code: the parse
    issues,             \* analyze_python_code: issues
    static_context,     \* analyze_python_code: static_context
    complexity,         \* analyze_python_code: complexity (handed to the feedback)
    checks_issues,      \* run_static_checks: issues
    agenda,             \* the pending part of the running visitor's walk
    scopes, u_issues, seen,       \* undefined_checker: scopes, issues, _seen
    p_issues,                     \* runtime_checker: issues
    loop_depth, max_loop_depth,   \* complexity_checker
    has_recursion, function_name, \*   (function_name "" is None)
    last                \* history: the handler that ran last and what it decided

vars == <<request, pc, syntax_ok, tree, issues, static_context, complexity,
          checks_issues, agenda, scopes, u_issues, seen, p_issues, loop_depth,
          max_loop_depth, has_recursion, function_name, last>>

analyzeVars == <<syntax_ok, tree, issues, static_context, complexity>>

undefinedVars == <<scopes, u_issues, seen>>

complexityVars == <<loop_depth, max_loop_depth, has_recursion, function_name>>

\* `last` after handler `op`; the other fields are set by a read of a name.
Did(op) == [op |-> op, id |-> "", lineno |-> 0, outcome |-> "", binders |-> {}]

(***************************************************************************)
(* The agenda.  A visit item is a pending call visit(node).  Its field     *)
(* `binders` is history, read by no action: the names that the syntax      *)
(* binds around the node, which are the names bound by the constructs      *)
(* whose body the node lies in (a function's name and parameters, a class  *)
(* name, a loop target, the with-as and except-as names) and the names of  *)
(* the functions defined by earlier statements of the statement lists the  *)
(* node lies in.                                                           *)
(***************************************************************************)
FunctionClasses == {"FunctionDef", "AsyncFunctionDef"}

ParamNames(a) ==
    ({a.params[i].arg : i \in 1..Len(a.params)} \cup {a.vararg, a.kwarg}) \ {""}

BodyBinds(n, field) ==
    IF field # "body" THEN {}
    ELSE CASE n.cls \in FunctionClasses -> {n.name} \cup ParamNames(n.args)
           [] n.cls = "ClassDef" -> {n.name}
           [] n.cls \in {"For", "AsyncFor"} -> TargetNames(n.target)
           [] n.cls \in {"With", "AsyncWith"} ->
                 UNION {TargetNames(n.items[i].optional_vars) : i \in 1..Len(n.items)}
           [] n.cls = "ExceptHandler" -> {n.name} \ {""}
           [] OTHER -> {}

EarlierFunctions(fs, i) ==
    {fs[j].node.name : j \in {k \in 1..(i - 1) : /\ fs[k].field = fs[i].field
                                                 /\ fs[k].node.cls \in FunctionClasses}}

\* The visits of the tagged children fs of the node of item `it`, in order.
Items(fs, it) ==
    [i \in 1..Len(fs) |->
        [k |-> "visit", node |-> fs[i].node,
         binders |-> it.binders \cup BodyBinds(it.node, fs[i].field)
                        \cup EarlierFunctions(fs, i)]]

Visits(field, nodes, it) == Items(In(field, nodes), it)

\* NodeVisitor.generic_visit(node)
GenericVisit(it) == Items(Fields(it.node), it)

RootVisit(t) == <<[k |-> "visit", node |-> t, binders |-> {}]>>

Visiting(phase) == pc = phase /\ agenda # <<>> /\ Head(agenda).k = "visit"

(***************************************************************************)
(* analyze_python_code, up to the call of generate_feedback.               *)
(***************************************************************************)
NoContext == [issues |-> <<>>, complexity |-> Absent]

Init ==
    /\ request \in Requests
    /\ pc = "analyze"
    /\ syntax_ok = TRUE
    /\ tree = Absent
    /\ issues = <<>>
    /\ static_context = NoContext
    /\ complexity = Absent
    /\ checks_issues = <<>>
    /\ agenda = <<>>
    /\ scopes = <<{}>>
    /\ u_issues = <<>>
    /\ seen = {}
    /\ p_issues = <<>>
    /\ loop_depth = 0
    /\ max_loop_depth = 0
    /\ has_recursion = FALSE
    /\ function_name = ""
    /\ last = Did("init")

\* `if not source`: the response of the blank source, nothing is parsed.
analyze_blank ==
    /\ pc = "analyze"
    /\ request.source.parse = "blank"
    /\ pc' = "no_code"
    /\ last' = Did("analyze_blank")
    /\ UNCHANGED <<request, analyzeVars, checks_issues, agenda, undefinedVars,
                   p_issues, complexityVars>>

\* ast.parse raises SyntaxError; the static checks are skipped.
analyze_syntax_error ==
    /\ pc = "analyze"
    /\ request.source.parse = "SyntaxError"
    /\ syntax_ok' = FALSE
    /\ issues' = Append(issues, SyntaxErrorIssue(request.source.exc))
    /\ static_context' = NoContext
    /\ complexity' = Absent
    /\ pc' = "done"
    /\ last' = Did("analyze_syntax_error")
    /\ UNCHANGED <<request, tree, checks_issues, agenda, undefinedVars, p_issues,
                   complexityVars>>

\* ast.parse succeeds; run_static_checks starts the undefined_checker.
analyze_parsed ==
    /\ pc = "analyze"
    /\ request.source.parse = "tree"
    /\ tree' = request.source.tree
    /\ checks_issues' = <<>>
    /\ scopes' = <<{}>>
    /\ u_issues' = <<>>
    /\ seen' = {}
    /\ agenda' = RootVisit(request.source.tree)
    /\ pc' = "undefined"
    /\ last' = Did("analyze_parsed")
    /\ UNCHANGED <<request, syntax_ok, issues, static_context, complexity, p_issues,
                   complexityVars>>

(***************************************************************************)
(* UndefinedNameVisitor.                                                   *)
(***************************************************************************)
UHandled ==
    {"Name", "Import", "ImportFrom", "FunctionDef", "AsyncFunctionDef", "ClassDef",
     "For", "While", "With", "Assign", "AnnAssign", "AugAssign", "ExceptHandler"}

UFrame == <<request, pc, analyzeVars, checks_issues, p_issues, complexityVars>>

U_visit_Name ==
    /\ Visiting("undefined")
    /\ LET it == Head(agenda)
           node == it.node
           outcome == ReportOutcome(node, scopes, seen)
       IN  /\ node.cls = "Name"
           /\ IF node.ctx = "Load"
              THEN /\ seen' = IF outcome = "flagged"
                              THEN seen \cup {<<node.id, node.lineno>>} ELSE seen
                   /\ u_issues' = IF outcome = "flagged"
                                  THEN Append(u_issues, UndefinedIssue(node))
                                  ELSE u_issues
                   /\ last' = [op |-> "report_undefined", id |-> node.id,
                               lineno |-> node.lineno, outcome |-> outcome,
                               binders |-> it.binders]
              ELSE /\ UNCHANGED <<seen, u_issues>>
                   /\ last' = Did("visit_Name")
           /\ agenda' = GenericVisit(it) \o Tail(agenda)
    /\ UNCHANGED <<UFrame, scopes>>

\* alias.asname or alias.name.split(".")[0]
ImportedName(alias) == IF alias.asname # "" THEN alias.asname ELSE alias.name[1]

U_visit_Import ==
    /\ Visiting("undefined")
    /\ LET it == Head(agenda)
           node == it.node
       IN  /\ node.cls = "Import"
           /\ scopes' = DefineAll(scopes,
                            [i \in 1..Len(node.names) |-> ImportedName(node.names[i])])
           /\ agenda' = GenericVisit(it) \o Tail(agenda)
    /\ last' = Did("visit_Import")
    /\ UNCHANGED <<UFrame, u_issues, seen>>

\* alias.asname or alias.name, the wildcard skipped
ImportedFromNames(names) ==
    LET kept == SelectSeq(names, LAMBDA alias : alias.name # <<"*">>)
    IN  [i \in 1..Len(kept) |->
            IF kept[i].asname # "" THEN kept[i].asname ELSE kept[i].name[1]]

U_visit_ImportFrom ==
    /\ Visiting("undefined")
    /\ LET it == Head(agenda)
           node == it.node
       IN  /\ node.cls = "ImportFrom"
           /\ scopes' = DefineAll(scopes, ImportedFromNames(node.names))
           /\ agenda' = GenericVisit(it) \o Tail(agenda)
    /\ last' = Did("visit_ImportFrom")
    /\ UNCHANGED <<UFrame, u_issues, seen>>

\* The parameters visit_FunctionDef defines, in its order.
DefinedParams(a) ==
    SelectSeq([i \in 1..Len(a.params) |-> a.params[i].arg] \o <<a.vararg, a.kwarg>>,
              LAMBDA name : name # "")

\* visit_FunctionDef and visit_AsyncFunctionDef, up to the first visit.
\* visit_FunctionDef defining the parameters without pushing a frame.
FunctionDefScopesNoPush(sc, node) ==
    DefineAll(Define(sc, node.name), DefinedParams(node.args))

FunctionDefScopes(sc, node) ==
    DefineAll(PushScope(Define(sc, node.name)), DefinedParams(node.args))

FunctionDefVisits(it) ==
    Visits("decorator_list", it.node.decorator_list, it)
        \o Visits("body", it.node.body, it)
        \o <<[k |-> "pop_scope"]>>

U_visit_FunctionDef ==
    /\ Visiting("undefined")
    /\ LET it == Head(agenda)
       IN  /\ it.node.cls \in FunctionClasses
           /\ scopes' = FunctionDefScopes(scopes, it.node)
           /\ agenda' = FunctionDefVisits(it) \o Tail(agenda)
    /\ last' = Did("visit_FunctionDef")
    /\ UNCHANGED <<UFrame, u_issues, seen>>

ClassDefVisits(it) ==
    Visits("bases", it.node.bases, it)
        \o Visits("decorator_list", it.node.decorator_list, it)
        \o Visits("body", it.node.body, it)
        \o <<[k |-> "pop_scope"]>>

U_visit_ClassDef ==
    /\ Visiting("undefined")
    /\ LET it == Head(agenda)
       IN  /\ it.node.cls = "ClassDef"
           /\ scopes' = PushScope(Define(scopes, it.node.name))
           /\ agenda' = ClassDefVisits(it) \o Tail(agenda)
    /\ last' = Did("visit_ClassDef")
    /\ UNCHANGED <<UFrame, u_issues, seen>>

\* self._pop_scope() at the end of visit_FunctionDef, visit_ClassDef and
\* visit_ExceptHandler
U_pop_scope ==
    /\ pc = "undefined"
    /\ agenda # <<>>
    /\ Head(agenda).k = "pop_scope"
    /\ scopes' = PopScope(scopes)
    /\ agenda' = Tail(agenda)
    /\ last' = Did("pop_scope")
    /\ UNCHANGED <<UFrame, u_issues, seen>>

ForVisits(it) ==
    Visits("iter", <<it.node.iter>>, it)
        \o <<[k |-> "add_target_names", target |-> it.node.target]>>
        \o Visits("body", it.node.body, it)
        \o Visits("orelse", it.node.orelse, it)

U_visit_For ==
    /\ Visiting("undefined")
    /\ LET it == Head(agenda)
       IN  /\ it.node.cls = "For"
           /\ agenda' = ForVisits(it) \o Tail(agenda)
    /\ last' = Did("visit_For")
    /\ UNCHANGED <<UFrame, undefinedVars>>

\* _add_target_names(..., self.scopes[-1]) after a visit, in visit_For and
\* visit_With
U_add_target_names ==
    /\ pc = "undefined"
    /\ agenda # <<>>
    /\ Head(agenda).k = "add_target_names"
    /\ scopes' = AddTargetNames(Head(agenda).target, scopes)
    /\ agenda' = Tail(agenda)
    /\ last' = Did("add_target_names")
    /\ UNCHANGED <<UFrame, u_issues, seen>>

U_visit_While ==
    /\ Visiting("undefined")
    /\ LET it == Head(agenda)
       IN  /\ it.node.cls = "While"
           /\ agenda' = Visits("test", <<it.node.test>>, it)
                            \o Visits("body", it.node.body, it)
                            \o Visits("orelse", it.node.orelse, it)
                            \o Tail(agenda)
    /\ last' = Did("visit_While")
    /\ UNCHANGED <<UFrame, undefinedVars>>

WithItemVisits(item, it) ==
    Visits("context_expr", <<item.context_expr>>, it)
        \o (IF item.optional_vars # Absent
            THEN <<[k |-> "add_target_names", target |-> item.optional_vars]>>
            ELSE <<>>)

WithVisits(it) ==
    Flatten([i \in 1..Len(it.node.items) |-> WithItemVisits(it.node.items[i], it)])
        \o Visits("body", it.node.body, it)

U_visit_With ==
    /\ Visiting("undefined")
    /\ LET it == Head(agenda)
       IN  /\ it.node.cls = "With"
           /\ agenda' = WithVisits(it) \o Tail(agenda)
    /\ last' = Did("visit_With")
    /\ UNCHANGED <<UFrame, undefinedVars>>

U_visit_Assign ==
    /\ Visiting("undefined")
    /\ LET it == Head(agenda)
       IN  /\ it.node.cls = "Assign"
           /\ scopes' = AddAllTargetNames(it.node.targets, scopes)
           /\ agenda' = Visits("value", <<it.node.value>>, it) \o Tail(agenda)
    /\ last' = Did("visit_Assign")
    /\ UNCHANGED <<UFrame, u_issues, seen>>

U_visit_AnnAssign ==
    /\ Visiting("undefined")
    /\ LET it == Head(agenda)
       IN  /\ it.node.cls = "AnnAssign"
           /\ scopes' = AddTargetNames(it.node.target, scopes)
           /\ agenda' = Visits("annotation", <<it.node.annotation>>, it)
                            \o Visits("value", Present(<<it.node.value>>), it)
                            \o Tail(agenda)
    /\ last' = Did("visit_AnnAssign")
    /\ UNCHANGED <<UFrame, u_issues, seen>>

U_visit_AugAssign ==
    /\ Visiting("undefined")
    /\ LET it == Head(agenda)
       IN  /\ it.node.cls = "AugAssign"
           /\ scopes' = AddTargetNames(it.node.target, scopes)
           /\ agenda' = Visits("value", <<it.node.value>>, it) \o Tail(agenda)
    /\ last' = Did("visit_AugAssign")
    /\ UNCHANGED <<UFrame, u_issues, seen>>

ExceptHandlerVisits(it) == Visits("body", it.node.body, it) \o <<[k |-> "pop_scope"]>>

U_visit_ExceptHandler ==
    /\ Visiting("undefined")
    /\ LET it == Head(agenda)
       IN  /\ it.node.cls = "ExceptHandler"
           /\ scopes' = IF it.node.name # ""
                        THEN Define(PushScope(scopes), it.node.name)
                        ELSE PushScope(scopes)
           /\ agenda' = ExceptHandlerVisits(it) \o Tail(agenda)
    /\ last' = Did("visit_ExceptHandler")
    /\ UNCHANGED <<UFrame, u_issues, seen>>

\* A node class without a handler: NodeVisitor.generic_visit.
U_generic_visit ==
    /\ Visiting("undefined")
    /\ LET it == Head(agenda)
       IN  /\ it.node.cls \notin UHandled
           /\ agenda' = GenericVisit(it) \o Tail(agenda)
    /\ last' = Did("generic_visit")
    /\ UNCHANGED <<UFrame, undefinedVars>>

\* undefined_checker.visit(tree) has returned:
\* issues.extend(undefined_checker.issues), then the runtime_checker starts.
ExtendUndefined(found, more) == found \o more

U_return ==
    /\ pc = "undefined"
    /\ agenda = <<>>
    /\ checks_issues' = ExtendUndefined(checks_issues, u_issues)
    /\ p_issues' = <<>>
    /\ agenda' = RootVisit(tree)
    /\ pc' = "runtime"
    /\ last' = Did("extend_undefined")
    /\ UNCHANGED <<request, analyzeVars, undefinedVars, complexityVars>>

(***************************************************************************)
(* RuntimePatternVisitor.                                                  *)
(***************************************************************************)
PHandled == {"BinOp", "For", "Compare"}

PFrame == <<request, analyzeVars, checks_issues, undefinedVars, complexityVars>>

BinOpIssues(node) ==
    IF node.op \in DivisionOps /\ IsConstantZero(node.right)
    THEN <<ZeroDivisionIssue(node)>> ELSE <<>>

P_visit_BinOp ==
    /\ Visiting("runtime")
    /\ LET it == Head(agenda)
       IN  /\ it.node.cls = "BinOp"
           /\ p_issues' = p_issues \o BinOpIssues(it.node)
           /\ agenda' = GenericVisit(it) \o Tail(agenda)
    /\ last' = Did("visit_BinOp")
    /\ UNCHANGED <<PFrame, pc>>

ForIssues(node) == IF IsIntConstant(node.iter) THEN <<NotIterableIssue(node)>> ELSE <<>>

P_visit_For ==
    /\ Visiting("runtime")
    /\ LET it == Head(agenda)
       IN  /\ it.node.cls = "For"
           /\ p_issues' = p_issues \o ForIssues(it.node)
           /\ agenda' = GenericVisit(it) \o Tail(agenda)
    /\ last' = Did("visit_For")
    /\ UNCHANGED <<PFrame, pc>>

CompareIssues(node) ==
    IF /\ Len(node.ops) = 1
       /\ node.ops[1] \in EqualityOps
       /\ IsNoneConstant(node.comparators[1])
    THEN <<NoneCheckIssue(node)>> ELSE <<>>

P_visit_Compare ==
    /\ Visiting("runtime")
    /\ LET it == Head(agenda)
       IN  /\ it.node.cls = "Compare"
           /\ p_issues' = p_issues \o CompareIssues(it.node)
           /\ agenda' = GenericVisit(it) \o Tail(agenda)
    /\ last' = Did("visit_Compare")
    /\ UNCHANGED <<PFrame, pc>>

P_generic_visit ==
    /\ Visiting("runtime")
    /\ LET it == Head(agenda)
       IN  /\ it.node.cls \notin PHandled
           /\ agenda' = GenericVisit(it) \o Tail(agenda)
    /\ last' = Did("generic_visit")
    /\ UNCHANGED <<PFrame, pc, p_issues>>

\* runtime_checker.visit(tree) has returned:
\* issues.extend(runtime_checker.issues), then the complexity_checker starts.
\* The runtime_checker's issues put before the issues found so far.
ExtendRuntimeFirst(found, more) == more \o found

ExtendRuntime(found, more) == found \o more

P_return ==
    /\ pc = "runtime"
    /\ agenda = <<>>
    /\ checks_issues' = ExtendRuntime(checks_issues, p_issues)
    /\ loop_depth' = 0
    /\ max_loop_depth' = 0
    /\ has_recursion' = FALSE
    /\ function_name' = ""
    /\ agenda' = RootVisit(tree)
    /\ pc' = "complexity"
    /\ last' = Did("extend_runtime")
    /\ UNCHANGED <<request, analyzeVars, undefinedVars, p_issues>>

(***************************************************************************)
(* ComplexityVisitor.                                                      *)
(***************************************************************************)
CHandled == {"For", "While", "FunctionDef", "AsyncFunctionDef"}

CFrame == <<request, pc, analyzeVars, checks_issues, undefinedVars, p_issues>>

Max(a, b) == IF a >= b THEN a ELSE b

\* visit_For and visit_While: the loop is entered.
EnterLoop(it) ==
    /\ loop_depth' = loop_depth + 1
    /\ max_loop_depth' = Max(max_loop_depth, loop_depth + 1)
    /\ agenda' = GenericVisit(it) \o <<[k |-> "leave_loop"]>> \o Tail(agenda)

C_visit_For ==
    /\ Visiting("complexity")
    /\ Head(agenda).node.cls = "For"
    /\ EnterLoop(Head(agenda))
    /\ last' = Did("visit_For")
    /\ UNCHANGED <<CFrame, has_recursion, function_name>>

C_visit_While ==
    /\ Visiting("complexity")
    /\ Head(agenda).node.cls = "While"
    /\ EnterLoop(Head(agenda))
    /\ last' = Did("visit_While")
    /\ UNCHANGED <<CFrame, has_recursion, function_name>>

\* self.loop_depth -= 1 at the end of visit_For and visit_While
C_leave_loop ==
    /\ pc = "complexity"
    /\ agenda # <<>>
    /\ Head(agenda).k = "leave_loop"
    /\ loop_depth' = loop_depth - 1
    /\ agenda' = Tail(agenda)
    /\ last' = Did("leave_loop")
    /\ UNCHANGED <<CFrame, max_loop_depth, has_recursion, function_name>>

C_visit_FunctionDef ==
    /\ Visiting("complexity")
    /\ LET it == Head(agenda)
       IN  /\ it.node.cls \in FunctionClasses
           /\ function_name' = it.node.name
           /\ has_recursion' = (has_recursion \/ CheckRecursion(it.node, it.node.name))
           /\ agenda' = GenericVisit(it)
                            \o <<[k |-> "leave_function", previous |-> function_name]>>
                            \o Tail(agenda)
    /\ last' = Did("visit_FunctionDef")
    /\ UNCHANGED <<CFrame, loop_depth, max_loop_depth>>

\* self.function_name = previous at the end of visit_FunctionDef
C_leave_function ==
    /\ pc = "complexity"
    /\ agenda # <<>>
    /\ Head(agenda).k = "leave_function"
    /\ function_name' = Head(agenda).previous
    /\ agenda' = Tail(agenda)
    /\ last' = Did("leave_function")
    /\ UNCHANGED <<CFrame, loop_depth, max_loop_depth, has_recursion>>

C_generic_visit ==
    /\ Visiting("complexity")
    /\ LET it == Head(agenda)
       IN  /\ it.node.cls \notin CHandled
           /\ agenda' = GenericVisit(it) \o Tail(agenda)
    /\ last' = Did("generic_visit")
    /\ UNCHANGED <<CFrame, complexityVars>>

(***************************************************************************)
(* The end of run_static_checks and of analyze_python_code's static part.  *)
(***************************************************************************)
\* The dict run_static_checks returns.
StaticChecksResult(found, recursion, depth) ==
    [issues |-> found,
     complexity |-> [time |-> DeriveTimeComplexity(recursion, depth),
                     space |-> DeriveSpaceComplexity(recursion)],
     recursion |-> recursion,
     max_loop_depth |-> depth]

\* complexity_checker.visit(tree) has returned; run_static_checks returns, and
\* analyze_python_code takes the issues and the complexity from the result.
C_return ==
    /\ pc = "complexity"
    /\ agenda = <<>>
    /\ LET result == StaticChecksResult(checks_issues, has_recursion, max_loop_depth)
       IN  /\ static_context' = result
           /\ issues' = result.issues
           /\ complexity' = IF request.include_complexity THEN result.complexity
                            ELSE Absent
    /\ pc' = "done"
    /\ last' = Did("run_static_checks")
    /\ UNCHANGED <<request, syntax_ok, tree, checks_issues, agenda, undefinedVars,
                   p_issues, complexityVars>>

Next ==
    \/ analyze_blank
    \/ analyze_syntax_error
    \/ analyze_parsed
    \/ U_visit_Name
    \/ U_visit_Import
    \/ U_visit_ImportFrom
    \/ U_visit_FunctionDef
    \/ U_visit_ClassDef
    \/ U_pop_scope
    \/ U_visit_For
    \/ U_add_target_names
    \/ U_visit_While
    \/ U_visit_With
    \/ U_visit_Assign
    \/ U_visit_AnnAssign
    \/ U_visit_AugAssign
    \/ U_visit_ExceptHandler
    \/ U_generic_visit
    \/ U_return
    \/ P_visit_BinOp
    \/ P_visit_For
    \/ P_visit_Compare
    \/ P_generic_visit
    \/ P_return
    \/ C_visit_For
    \/ C_visit_While
    \/ C_leave_loop
    \/ C_visit_FunctionDef
    \/ C_leave_function
    \/ C_generic_visit
    \/ C_return

Spec == Init /\ [][Next]_vars

(***************************************************************************)
(* The scope stack on its own: the methods of UndefinedNameVisitor that    *)
(* keep it, called in any order on a new visitor.                          *)
(***************************************************************************)
MaxScopes == 3      \* frames pushed on one another

ScopeNames == {"x", "q", "_x", ""}

InitScope ==
    /\ request = [source |-> [parse |-> "blank"], include_complexity |-> FALSE]
    /\ pc = "scope"
    /\ syntax_ok = TRUE
    /\ tree = Absent
    /\ issues = <<>>
    /\ static_context = NoContext
    /\ complexity = Absent
    /\ checks_issues = <<>>
    /\ agenda = <<>>
    /\ scopes = <<{}>>
    /\ u_issues = <<>>
    /\ seen = {}
    /\ p_issues = <<>>
    /\ loop_depth = 0
    /\ max_loop_depth = 0
    /\ has_recursion = FALSE
    /\ function_name = ""
    /\ last = Did("init")

ScopeFrame ==
    <<request, pc, analyzeVars, checks_issues, agenda, u_issues, seen, p_issues,
      complexityVars>>

Scope_push ==
    /\ pc = "scope"
    /\ Len(scopes) < MaxScopes
    /\ scopes' = PushScope(scopes)
    /\ last' = Did("push_scope")
    /\ UNCHANGED ScopeFrame

\* `last` keeps whether the call found one frame only.
Scope_pop ==
    /\ pc = "scope"
    /\ scopes' = PopScope(scopes)
    /\ last' = [Did("pop_scope") EXCEPT
                    !.outcome = IF Len(scopes) = 1 THEN "sole frame" ELSE "top frame"]
    /\ UNCHANGED ScopeFrame

Scope_define ==
    /\ pc = "scope"
    /\ \E name \in ScopeNames :
          /\ scopes' = Define(scopes, name)
          /\ last' = [Did("define") EXCEPT !.id = name]
    /\ UNCHANGED ScopeFrame

Scope_is_defined ==
    /\ pc = "scope"
    /\ \E name \in ScopeNames :
          last' = [Did("is_defined") EXCEPT
                      !.id = name,
                      !.outcome = IF IsDefined(scopes, name) THEN "defined"
                                  ELSE "undefined"]
    /\ UNCHANGED <<ScopeFrame, scopes>>

NextScope == Scope_push \/ Scope_pop \/ Scope_define \/ Scope_is_defined

SpecScope == InitScope /\ [][NextScope]_vars

(***************************************************************************)
(* What the claims read.                                                   *)
(***************************************************************************)
\* The static checks of a parsed source have returned.
Analysed == pc = "done" /\ request.source.parse = "tree"

\* The walk of the undefined_checker is over.
UndefinedWalked == pc \in {"runtime", "complexity", "done"} /\ tree # Absent

\* The walk of the runtime_checker is over.
RuntimeWalked == pc \in {"complexity", "done"} /\ tree # Absent

\* The name an undefined-reference finding is about.
NameOf(issue) == issue.why[2]

\* How many undefined-reference findings of `found` are about name id on line l.
UndefinedAt(found, id, l) ==
    Cardinality({i \in 1..Len(found) : /\ found[i].type = "Potential issue"
                                       /\ NameOf(found[i]) = id
                                       /\ found[i].line = l})

\* How many findings of `found` have the type and the line.
FindingsAt(found, type, l) ==
    Cardinality({i \in 1..Len(found) : found[i].type = type /\ found[i].line = l})

IsPrefix(s, t) == Len(s) <= Len(t) /\ SubSeq(t, 1, Len(s)) = s

TimeClasses ==
    {"Depends on recursion depth; often O(2^n) for naive recursion", "Roughly O(n)",
     "Approximately O(n^2)", "Approximately O(n^k), k > 2"}

SpaceClasses == {"O(recursion depth)", "O(1) to O(n) typical for this file"}

C3_NoDuplicateFinding ==
    /\ \A i, j \in 1..Len(u_issues) :
          (NameOf(u_issues[i]) = NameOf(u_issues[j]) /\ u_issues[i].line = u_issues[j].line)
              => i = j
    /\ (last.op = "report_undefined" /\ last.outcome = "seen")
          => UndefinedAt(u_issues, last.id, last.lineno) = 1

\* A second read of an undefined name on the same line has been visited.
C3_Witness ==
    /\ last.op = "report_undefined"
    /\ last.outcome = "seen"
    /\ UndefinedAt(u_issues, last.id, last.lineno) = 1

(***************************************************************************)
(* C4.  The scope stack always has at least one frame, whatever calls of   *)
(* push, pop, define and is_defined are made; a pop that finds one frame   *)
(* leaves the stack, and the names of that frame, as they are.             *)
(***************************************************************************)
C4_ModuleFrameStays ==
    /\ [](Len(scopes) >= 1)
    /\ [][(last'.op = "pop_scope" /\ Len(scopes) = 1) => scopes' = scopes]_vars

\* A pop has found the module frame alone, with names defined in it.
C4_Witness ==
    /\ pc = "scope"
    /\ last.op = "pop_scope"
    /\ last.outcome = "sole frame"
    /\ scopes = <<{"x", "q"}>>

(***************************************************************************)
(* C7.  A read of a name that two frames of the stack define is not        *)
(* reported; a step changes no frame below the top one, and a step that    *)
(* shortens the stack removes the top frame only, so the outer frame still *)
(* holds the name after the inner frame is popped.                         *)
(***************************************************************************)
FramesDefining(name) == {i \in 1..Len(scopes) : name \in scopes[i]}

C7_ShadowingKeepsOuterFrame ==
    /\ []((last.op = "report_undefined" /\ Cardinality(FramesDefining(last.id)) >= 2)
            => last.outcome = "defined")
    /\ [][/\ \A i \in 1..(Len(scopes) - 1) : i <= Len(scopes') => scopes'[i] = scopes[i]
          /\ Len(scopes') < Len(scopes) => scopes' = SubSeq(scopes, 1, Len(scopes) - 1)]_vars

\* A name defined in the module frame and in a function's frame has been read
\* in the function.
C7_Witness ==
    /\ pc = "undefined"
    /\ last.op = "report_undefined"
    /\ last.outcome = "defined"
    /\ Len(scopes) = 2
    /\ FramesDefining(last.id) = {1, 2}

(***************************************************************************)
(* C8.  The issues of a parsed source are the findings of the              *)
(* undefined_checker followed by the findings of the runtime_checker, each *)
(* list in the order the walk appended them (a list only grows at its      *)
(* end); the complexity_checker adds none.  The list is not ordered by     *)
(* line.                                                                   *)
(***************************************************************************)
C8_FindingOrder ==
    /\ [](Analysed => issues = u_issues \o p_issues)
    /\ [](\A i \in 1..Len(u_issues) : u_issues[i].type = "Potential issue")
    /\ [](\A i \in 1..Len(p_issues) : p_issues[i].type # "Potential issue")
    /\ [][/\ IsPrefix(u_issues, u_issues')
          /\ IsPrefix(p_issues, p_issues')
          /\ pc = "complexity" /\ pc' = "complexity" => checks_issues' = checks_issues
          /\ pc = "complexity" /\ pc' = "done" => issues' = checks_issues]_vars

\* An undefined-reference finding of a later line stands before a pattern
\* finding of an earlier line.
C8_Witness ==
    /\ Analysed
    /\ \E i, j \in 1..Len(issues) :
          /\ i < j
          /\ issues[i].type = "Potential issue"
          /\ issues[j].type = "ZeroDivisionError"
          /\ issues[i].line > issues[j].line

(***************************************************************************)
(* The names a tree binds, read off the syntax.                            *)
(***************************************************************************)
NodeBinds(n) ==
    CASE n.cls = "Name" -> IF n.ctx = "Store" THEN {n.id} ELSE {}
      [] n.cls \in FunctionClasses -> {n.name} \cup ParamNames(n.args)
      [] n.cls = "ClassDef" -> {n.name}
      [] n.cls = "Import" -> {ImportedName(n.names[i]) : i \in 1..Len(n.names)}
      [] n.cls = "ImportFrom" -> Range(ImportedFromNames(n.names))
      [] n.cls = "ExceptHandler" -> {n.name} \ {""}
      [] OTHER -> {}

\* The names bound by the nodes of the sequence w.
BoundIn(w) == UNION {NodeBinds(w[i]) : i \in 1..Len(w)}

BoundNames(t) == BoundIn(Walk(t))

\* The names bound in tree t outside the definition d: by the nodes that are
\* not d's own parameters, decorators, annotations or body; d's name is one.
BoundOutside(t, d) ==
    LET inner == Range(Walk(d))
        w == Walk(t)
    IN  {d.name} \cup UNION {NodeBinds(w[i]) : i \in {k \in 1..Len(w) : w[k] \notin inner}}

IsRead(n) == n.cls = "Name" /\ n.ctx = "Load" /\ n.id \notin Builtins

(***************************************************************************)
(* C2.  Once the undefined_checker has walked the tree, every read of a    *)
(* name that is no builtin and that the tree binds nowhere has exactly one *)
(* undefined-reference finding with its name and line, wherever the read   *)
(* stands: a parameter default, the type of an except clause and the       *)
(* subscript of an assignment target included.                             *)
(***************************************************************************)
C2_EveryUndefinedReadReported ==
    UndefinedWalked =>
        LET w == Walk(tree)
        IN  \A i \in 1..Len(w) :
                (IsRead(w[i]) /\ w[i].id \notin BoundNames(tree))
                    => UndefinedAt(u_issues, w[i].id, w[i].lineno) = 1

(***************************************************************************)
(* C5.  Once the undefined_checker has walked the tree, a name read by a   *)
(* decorator or a class base that is bound only by the decorated           *)
(* definition's parameters or body has an undefined-reference finding, and *)
(* so has a name read by a parameter annotation or a return annotation     *)
(* that the tree binds nowhere: these expressions are looked up in the     *)
(* enclosing scope.                                                        *)
(***************************************************************************)
Annotations(d) ==
    Present([i \in 1..Len(d.args.params) |-> d.args.params[i].annotation]
                \o <<d.returns>>)

HeadReads(d) ==
    IF d.cls = "ClassDef" THEN d.bases \o d.decorator_list ELSE d.decorator_list

C5_HeadsReadEnclosingScope ==
    UndefinedWalked =>
        LET w == Walk(tree)
        IN  \A i \in 1..Len(w) :
                LET d == w[i]
                IN  /\ d.cls \in FunctionClasses \cup {"ClassDef"} =>
                          \A j \in 1..Len(HeadReads(d)) :
                              LET e == HeadReads(d)[j]
                              IN  (IsRead(e) /\ e.id \notin BoundOutside(tree, d))
                                      => UndefinedAt(u_issues, e.id, e.lineno) = 1
                    /\ d.cls \in FunctionClasses =>
                          \A j \in 1..Len(Annotations(d)) :
                              LET e == Annotations(d)[j]
                              IN  (IsRead(e) /\ e.id \notin BoundNames(tree))
                                      => UndefinedAt(u_issues, e.id, e.lineno) = 1

(***************************************************************************)
(* C6.  A read of a name in the body of the construct that binds it, or    *)
(* after the definition of the function of that name, is never judged      *)
(* undefined, for every binding construct: import, def, class, assignment, *)
(* for, with-as and except-as, the async forms among them.                 *)
(***************************************************************************)
C6_BoundBeforeBodyRead ==
    (last.op = "report_undefined" /\ last.id \in last.binders)
        => last.outcome \notin {"flagged", "seen"}

(***************************************************************************)
(* C9.  Once the runtime_checker has walked the tree, each line has as     *)
(* many ZeroDivisionError findings as it has binary expressions with the   *)
(* operator /, // or % whose right operand is a literal number equal to    *)
(* zero: an expression with such an operand gives one finding, any other   *)
(* right operand gives none.                                               *)
(***************************************************************************)
IsLiteralNumericZero(n) ==
    /\ n.cls = "Constant"
    /\ n.ty \in {"int", "float", "complex", "bool"}
    /\ n.num = 0

\* The nodes of the walk w that are divisions by a literal zero on line l.
DivisionsByZeroAt(w, l) ==
    Cardinality({i \in 1..Len(w) : /\ w[i].cls = "BinOp"
                                   /\ w[i].lineno = l
                                   /\ w[i].op \in {"Div", "FloorDiv", "Mod"}
                                   /\ IsLiteralNumericZero(w[i].right)})

\* The lines of the nodes of class cls in the walk w, and of the issues found.
LinesOf(w, cls, found) ==
    {w[i].lineno : i \in {k \in 1..Len(w) : w[k].cls = cls}}
        \cup {found[i].line : i \in 1..Len(found)}

C9_DivisionByLiteralZero ==
    RuntimeWalked =>
        LET w == Walk(tree)
        IN  \A l \in LinesOf(w, "BinOp", p_issues) :
                FindingsAt(p_issues, "ZeroDivisionError", l) = DivisionsByZeroAt(w, l)

(***************************************************************************)
(* C10.  Once the runtime_checker has walked the tree, each line has as    *)
(* many BestPractice findings as it has comparisons in which an == or !=   *)
(* has the literal None as an operand, on either side.                     *)
(***************************************************************************)
IsNoneLiteral(n) == n.cls = "Constant" /\ n.ty = "NoneType"

ComparesToNone(n) ==
    /\ n.cls = "Compare"
    /\ LET operands == <<n.left>> \o n.comparators
       IN  \E k \in 1..Len(n.ops) :
               /\ n.ops[k] \in {"Eq", "NotEq"}
               /\ IsNoneLiteral(operands[k]) \/ IsNoneLiteral(operands[k + 1])

NoneComparisonsAt(w, l) ==
    Cardinality({i \in 1..Len(w) : ComparesToNone(w[i]) /\ w[i].lineno = l})

C10_NoneComparisonEitherSide ==
    RuntimeWalked =>
        LET w == Walk(tree)
        IN  \A l \in LinesOf(w, "Compare", p_issues) :
                FindingsAt(p_issues, "BestPractice", l) = NoneComparisonsAt(w, l)

(***************************************************************************)
(* C11.  Once the runtime_checker has walked the tree, each line has as    *)
(* many TypeError findings (severity warning) as it has iterated           *)
(* expressions of loops, for or async for at any depth, that are literal   *)
(* integer constants: such a loop gives one finding, a loop over a list    *)
(* or a variable none.  (True and False count as integers, as they do for  *)
(* isinstance.)                                                            *)
(***************************************************************************)
IsLiteralInteger(n) == n.cls = "Constant" /\ n.ty \in {"int", "bool"}

IsIteratingLoop(n) == n.cls \in {"For", "AsyncFor"}

LoopsOverIntegerAt(w, l) ==
    Cardinality({i \in 1..Len(w) : /\ IsIteratingLoop(w[i])
                                   /\ IsLiteralInteger(w[i].iter)
                                   /\ w[i].iter.lineno = l})

C11_LoopOverLiteralInteger ==
    RuntimeWalked =>
        LET w == Walk(tree)
        IN  /\ \A l \in {w[i].iter.lineno : i \in {k \in 1..Len(w) : IsIteratingLoop(w[k])}}
                        \cup {p_issues[i].line : i \in 1..Len(p_issues)} :
                    FindingsAt(p_issues, "TypeError", l) = LoopsOverIntegerAt(w, l)
            /\ \A i \in 1..Len(p_issues) :
                    p_issues[i].type = "TypeError" => p_issues[i].severity = "warning"

(***************************************************************************)
(* C12.  The recursion flag of the result is true exactly when some        *)
(* function of the tree, at any nesting level, def or async def, has in    *)
(* its subtree a call whose callee is the bare name of that function; the  *)
(* flag is never set without one; when it is set the profile is the        *)
(* recursion time class and the recursion-depth space class, whatever the  *)
(* maximum loop depth.                                                     *)
(***************************************************************************)
CallsByName(c, name) == c.cls = "Call" /\ c.func.cls = "Name" /\ c.func.id = name

SelfCalling(t) ==
    LET w == Walk(t)
    IN  \E i \in 1..Len(w) :
            /\ w[i].cls \in {"FunctionDef", "AsyncFunctionDef"}
            /\ LET inner == Walk(w[i])
               IN  \E j \in 1..Len(inner) : CallsByName(inner[j], w[i].name)

C12_SelfCallSetsRecursion ==
    /\ (pc = "complexity" /\ has_recursion) => SelfCalling(tree)
    /\ Analysed =>
          /\ has_recursion = SelfCalling(tree)
          /\ static_context.recursion = has_recursion
          /\ has_recursion =>
                /\ static_context.complexity.time
                      = "Depends on recursion depth; often O(2^n) for naive recursion"
                /\ static_context.complexity.space = "O(recursion depth)"
          /\ ~has_recursion => static_context.complexity.space # "O(recursion depth)"

\* A function that calls itself inside three nested loops has been analysed.
C12_Witness ==
    /\ Analysed
    /\ static_context.recursion
    /\ static_context.max_loop_depth = 3
    /\ static_context.complexity.space = "O(recursion depth)"

(***************************************************************************)
(* C13.  When the static checks of a tree without a self-calling function  *)
(* have returned, the time class is the one of the greatest number of loop *)
(* constructs (for, async for, while) nested in one another in the tree:   *)
(* linear for 0 or 1, quadratic for 2, polynomial of degree > 2 for 3 or   *)
(* more; max_loop_depth is that number, and loop_depth is back at 0.       *)
(***************************************************************************)
MaxOf(S) == IF S = {} THEN 0 ELSE CHOOSE m \in S : \A k \in S : k <= m

IsLoop(n) == n.cls \in {"For", "AsyncFor", "While"}

\* The greatest number of loops nested in one another in the subtree of n.
RECURSIVE LoopNesting(_)
LoopNesting(n) ==
    LET cs == Children(n)
        below == MaxOf({LoopNesting(cs[i]) : i \in 1..Len(cs)})
    IN  IF IsLoop(n) THEN below + 1 ELSE below

TimeClassOf(depth) ==
    IF depth <= 1 THEN "Roughly O(n)"
    ELSE IF depth = 2 THEN "Approximately O(n^2)"
    ELSE "Approximately O(n^k), k > 2"

C13_LoopNestingDecidesTimeClass ==
    Analysed =>
        /\ loop_depth = 0
        /\ max_loop_depth = LoopNesting(tree)
        /\ static_context.max_loop_depth = max_loop_depth
        /\ ~SelfCalling(tree) =>
              static_context.complexity.time = TimeClassOf(LoopNesting(tree))

(***************************************************************************)
(* C14.  Pushes and pops of the undefined_checker are balanced: during the *)
(* walk the stack has one frame more than there are visits of a function,  *)
(* class or exception handler under way, so each such visit ends with the  *)
(* depth it began with and the whole walk ends with the module frame       *)
(* alone; no step changes a frame below the top one, and a pop takes off   *)
(* exactly the top frame.  Hence a name bound only inside the body of a    *)
(* function, class or handler (a parameter, a local, the except-as name)   *)
(* never is in the module frame, and a read of it at module level is       *)
(* judged undefined.                                                       *)
(***************************************************************************)
\* The visits under way that have pushed a frame: their pops are pending.
PendingPops(a) == Cardinality({i \in 1..Len(a) : a[i].k = "pop_scope"})

\* The names the subtree of n binds outside the body of every function,
\* class and exception handler.
RECURSIVE OuterBinds(_)
OuterBinds(n) ==
    CASE n.cls \in {"FunctionDef", "AsyncFunctionDef", "ClassDef"} -> {n.name}
      [] n.cls = "ExceptHandler" -> {}
      [] OTHER ->
            LET cs == Children(n)
            IN  NodeBinds(n) \cup UNION {OuterBinds(cs[i]) : i \in 1..Len(cs)}

\* The names bound only inside such bodies.
InnerOnly(t) == BoundNames(t) \ OuterBinds(t)

C14_PushesAndPopsBalanced ==
    /\ [](pc = "undefined" => Len(scopes) = 1 + PendingPops(agenda))
    /\ [](UndefinedWalked => Len(scopes) = 1)
    /\ []((pc = "undefined" \/ UndefinedWalked) => scopes[1] \cap InnerOnly(tree) = {})
    /\ []((last.op = "report_undefined" /\ Len(scopes) = 1 /\ last.id \in InnerOnly(tree))
            => last.outcome \in {"flagged", "seen"})
    /\ [][pc = "undefined" =>
            /\ \A i \in 1..(Len(scopes) - 1) : i <= Len(scopes') => scopes'[i] = scopes[i]
            /\ last'.op = "pop_scope" =>
                  /\ Len(scopes) > 1
                  /\ scopes' = SubSeq(scopes, 1, Len(scopes) - 1)]_vars

\* After the body of the construct that alone binds it, a name has been read
\* at module level and reported.
C14_Witness ==
    /\ pc = "undefined"
    /\ last.op = "report_undefined"
    /\ last.lineno = 20
    /\ last.id \in InnerOnly(tree)
    /\ last.outcome = "flagged"
    /\ scopes = <<OuterBinds(tree)>>

=============================================================================
